---- MODULE Spec2Model ----
(***************************************************************************)
(* TodoApp (app.js): a DOM task list kept in step with a remote store      *)
(* through asynchronous fetch calls.  The state is the list of <li>        *)
(* elements, the calls in flight and the store; every event handler and    *)
(* every continuation after an `await` is one action.  The model follows   *)
(* the TodoApp class whose requests all go through _apiRequest and whose   *)
(* _createTodoElement stores the store-assigned id in dataset.todoId.      *)
(***************************************************************************)
EXTENDS Integers, Sequences, FiniteSets, TLC

\* ---------------------------------------------------------------- bounds
MaxInit  == 1    \* tasks the store holds when the page is opened
MaxCmds  == 4    \* user actions (clicks, typed texts) after the page opens
MaxCalls == 2    \* remote calls in flight at the same time

\* Texts a user types into an input field: sequences of characters.
Texts == { <<" ">>, <<" ", "b", " ">> }

Filters == {"all", "active", "completed"}

VARIABLES
  store,          \* remote store: sequence of [id, title, completed]
  nextId,         \* next identifier the store assigns
  lis,            \* every <li> element created so far, by element identity
  todoList,       \* children of #todo-list: sequence of indices into lis
  calls,          \* _apiRequest calls in flight
  bulks,          \* pending Promise.all of clearAllTodos/clearCompletedTodos,
                  \* one slot per call that can be in flight
  loading,        \* #loading-bar has class 'active'
  todoInput,      \* value of #todo-input
  currentFilter,  \* this._currentFilter
  taskCount,      \* what #task-count displays
  nCmds,          \* user actions so far
  loaded,         \* history: how the constructor's loadTodos ended
  synced,         \* history: a load or a mutation has completed successfully
  last            \* the handler or continuation that ran last

vars == <<store, nextId, lis, todoList, calls, bulks, loading, todoInput,
          currentFilter, taskCount, nCmds, loaded, synced, last>>

\* ------------------------------------------------------------- helpers
Range(s) == { s[k] : k \in DOMAIN s }

RemoveAt(s, i) == [k \in 1..(Len(s) - 1) |-> IF k < i THEN s[k] ELSE s[k + 1]]

RECURSIVE Without(_, _)
\* the sequence s without the members of set X, order kept
Without(s, X) ==
  IF s = <<>> THEN <<>>
  ELSE IF Head(s) \in X THEN Without(Tail(s), X)
       ELSE <<Head(s)>> \o Without(Tail(s), X)

RECURSIVE TrimLeft(_)
TrimLeft(s) ==
  IF s # <<>> /\ Head(s) = " " THEN TrimLeft(Tail(s)) ELSE s

RECURSIVE TrimRight(_)
TrimRight(s) ==
  IF s # <<>> /\ s[Len(s)] = " " THEN TrimRight(SubSeq(s, 1, Len(s) - 1)) ELSE s

\* Variant of Trim: only the leading blanks are removed.
TrimLeftOnly(s) == TrimLeft(s)

\* String.prototype.trim
Trim(s) == TrimRight(TrimLeft(s))

IsBlank(s) == \A k \in DOMAIN s : s[k] = " "

\* -------------------------------------------------------------- records
\* History of the last step: which handler ran (op), on which element (li),
\* how it ended (outcome), the toggle's captured wasCompleted (was), and the
\* number of failure notifications (error toast, failure alert) it showed.
Event(op, li, outcome, was, notes) ==
  [op |-> op, li |-> li, outcome |-> outcome, was |-> was, notes |-> notes]

\* A pending Promise.all: the captured elements (lis), the deletes not yet
\* answered (pending), whether it has already rejected (settled); ok and
\* notes are history: the elements whose delete has succeeded so far and the
\* error notifications (toasts and alerts) its deletes have raised so far.
FreeBulk ==
  [kind |-> "free", lis |-> <<>>, pending |-> 0, settled |-> FALSE, ok |-> {},
   notes |-> 0]

\* One _apiRequest in flight together with the continuation awaiting it.
Call(method, id, body, handler, li, bulk, was, seq) ==
  [method |-> method, id |-> id, body |-> body, phase |-> "sent",
   resp |-> <<>>, handler |-> handler, li |-> li, bulk |-> bulk,
   was |-> was, seq |-> seq]

NoBody == [title |-> <<>>, completed |-> FALSE]

\* ------------------------------------------------------- the remote store
\* The store is an external collaborator; its contract is the one of the
\* specification (list, create, replace, remove keyed by id).
StoreIds == { store[k].id : k \in DOMAIN store }

StoreList == store

StoreCreated(body) == [id |-> nextId, title |-> body.title, completed |-> FALSE]

StoreReplace(id, body) ==
  [k \in DOMAIN store |->
     IF store[k].id = id
     THEN [id |-> id, title |-> body.title, completed |-> body.completed]
     ELSE store[k]]

StoreRemove(id) == SelectSeq(store, LAMBDA t : t.id # id)

\* Stores the page can be opened on: up to MaxInit tasks, ids 1..n.
InitialStores ==
  UNION { { [k \in 1..n |-> [id |-> k, title |-> <<"a">>, completed |-> c[k]]]
            : c \in [1..n -> BOOLEAN] } : n \in 0..MaxInit }

\* ------------------------------------------------------------ the view
\* Variant of NewLi: the class 'completed' is given to every new element.
NewLiAlwaysCompleted(todo, seq) ==
  [todoId |-> todo.id, taskText |-> todo.title, completed |-> TRUE,
   completedTime |-> TRUE,
   editing |-> FALSE, hidden |-> FALSE, editInput |-> todo.title,
   seqCompleted |-> TRUE, addSeq |-> seq, trip |-> <<>>, overlap |-> FALSE]

\* _createTodoElement: the <li> built from a todo object.  completedTime
\* tells whether dataset.completedTime is present.  seqCompleted, addSeq,
\* trip and overlap are history fields: the `completed` value that running
\* the toggles one after the other would give; the rank of the addTodo
\* command that created the element (0 for a loaded one); the wasCompleted
\* values of the latest (at most two) toggles that succeeded back to back,
\* each issued after the one before had resolved; and whether a toggle was
\* clicked while another toggle of the element was in flight.
NewLi(todo, seq) ==
  [todoId |-> todo.id, taskText |-> todo.title, completed |-> todo.completed,
   completedTime |-> todo.completed,
   editing |-> FALSE, hidden |-> FALSE, editInput |-> todo.title,
   seqCompleted |-> todo.completed, addSeq |-> seq, trip |-> <<>>,
   overlap |-> FALSE]

\* Variant of AppendChild: the element is inserted before the first child.
PrependChild(list, n) == <<n>> \o list

\* this._elements.todoList.appendChild(li)
AppendChild(list, n) == Append(list, n)

\* Variant of RemoveChild: the remaining children come out in reverse order.
RemoveChildReversed(list, n) ==
  LET r == Without(list, {n}) IN [k \in 1..Len(r) |-> r[Len(r) + 1 - k]]

\* li.remove()
RemoveChild(list, n) == Without(list, {n})

\* Variant of Counts: the completed figure is not reduced by the active one.
CountsCompletedIsTotal(L, list) ==
  LET active == Cardinality({ k \in DOMAIN list : ~L[list[k]].completed })
  IN  [total |-> Len(list), active |-> active, completed |-> Len(list)]

\* _updateTaskCounter
Counts(L, list) ==
  LET active == Cardinality({ k \in DOMAIN list : ~L[list[k]].completed })
  IN  [total |-> Len(list), active |-> active, completed |-> Len(list) - active]

\* Variant of Hides: the two filters take each other's test.
HidesSwapped(f, completed) ==
  \/ f = "active" /\ ~completed
  \/ f = "completed" /\ completed

\* the test of _applyFilter that gives a task the class 'hidden'
Hides(f, completed) ==
  \/ f = "active" /\ completed
  \/ f = "completed" /\ ~completed

\* Variant of ApplyFilter: the class 'hidden' is added but never removed.
ApplyFilterNeverUnhides(L, list, f) ==
  [n \in DOMAIN L |->
     IF n \in Range(list)
     THEN [L[n] EXCEPT !.hidden = L[n].hidden \/ Hides(f, L[n].completed)]
     ELSE L[n]]

\* _applyFilter
ApplyFilter(L, list, f) ==
  [n \in DOMAIN L |->
     IF n \in Range(list)
     THEN [L[n] EXCEPT !.hidden = Hides(f, L[n].completed)]
     ELSE L[n]]

\* Variant of ToggleClass: dataset.completedTime is set but never deleted.
ToggleClassKeepsTime(li) ==
  [li EXCEPT !.completed = ~li.completed,
             !.completedTime = TRUE]

\* contentDiv click: classList.toggle plus the completedTime bookkeeping
ToggleClass(li) ==
  [li EXCEPT !.completed = ~li.completed,
             !.completedTime = ~li.completed]

\* Variant of ToggleRollback: the captured wasCompleted is written back.
ToggleRollbackSnapshot(li, was) == [li EXCEPT !.completed = was]

\* the catch branch of the toggle handler: li.classList.toggle("completed")
ToggleRollback(li, was) == [li EXCEPT !.completed = ~li.completed]

\* Variant of TodoText: the value is used without trim().
TodoTextUntrimmed(input) == input

\* addTodo / _saveEdit: the text taken from the input field
TodoText(input) == Trim(input)

\* _showLoading, then the call joins the calls in flight
Issue(cs, c) == Append(cs, c)

CanIssue(n) == Len(calls) + n <= MaxCalls

\* every user action is one command of the session
UserStep ==
  nCmds < MaxCmds /\ nCmds' = nCmds + 1 /\ UNCHANGED <<loaded, synced>>

\* ---------------------------------------------------------------- Init
\* The constructor has run: the list is empty and loadTodos' GET is in flight.
Init ==
  /\ store \in InitialStores
  /\ nextId = Len(store) + 1
  /\ lis = <<>>
  /\ todoList = <<>>
  /\ calls = <<Call("GET", 0, NoBody, "load", 0, 0, FALSE, 0)>>
  /\ bulks = [b \in 1..MaxCalls |-> FreeBulk]
  /\ loading = TRUE
  /\ todoInput = <<>>
  /\ currentFilter = "all"
  /\ taskCount = [total |-> 0, active |-> 0, completed |-> 0]
  /\ nCmds = 0
  /\ loaded = "pending"
  /\ synced = FALSE
  /\ last = Event("loadTodos", 0, "issued", FALSE, 0)

\* --------------------------------------------------------- the network
\* A call is "sent" until the store has handled it, then "ok".  The store
\* handles the requests it has received in any order; a replace or remove of
\* an id it does not hold is refused.
ServerHandle(i) ==
  /\ i \in DOMAIN calls
  /\ calls[i].phase = "sent"
  /\ LET c == calls[i] IN
       CASE c.method = "GET" ->
              /\ calls' = [calls EXCEPT ![i].phase = "ok", ![i].resp = StoreList]
              /\ UNCHANGED <<store, nextId>>
         [] c.method = "POST" ->
              /\ calls' = [calls EXCEPT ![i].phase = "ok",
                                        ![i].resp = <<StoreCreated(c.body)>>]
              /\ store' = Append(store, StoreCreated(c.body))
              /\ nextId' = nextId + 1
         [] c.method = "PUT" ->
              /\ c.id \in StoreIds
              /\ calls' = [calls EXCEPT ![i].phase = "ok"]
              /\ store' = StoreReplace(c.id, c.body)
              /\ UNCHANGED nextId
         [] c.method = "DELETE" ->
              /\ c.id \in StoreIds
              /\ calls' = [calls EXCEPT ![i].phase = "ok"]
              /\ store' = StoreRemove(c.id)
              /\ UNCHANGED nextId
  /\ UNCHANGED <<lis, todoList, bulks, loading, todoInput, currentFilter,
                 taskCount, nCmds, loaded, synced, last>>

\* Variant of Answered: a handler resumes only when its call succeeded; a
\* rejected fetch is never delivered.
AnsweredOnlyOk(i, h) ==
  /\ i \in DOMAIN calls
  /\ calls[i].handler = h
  /\ calls[i].phase = "ok"

\* _apiRequest after its await, for call i of handler h.  A call the store
\* has handled resolves with its response; a call still "sent" can only be
\* rejected (non-2xx answer or transport fault, the store untouched).  In
\* both cases `finally` hides the loading bar; `catch` shows one error toast.
Answered(i, h) ==
  /\ i \in DOMAIN calls
  /\ calls[i].handler = h

Outcome(c) == IF c.phase = "ok" THEN "ok" ELSE "err"

Toasts(c) == IF Outcome(c) = "err" THEN 1 ELSE 0

\* -------------------------------------------------------------- loadTodos
\* Variant of LoadTodosDone: the new elements are appended to the old list
\* (the innerHTML = "" is left out).
LoadTodosDoneKeepsOldList(i) ==
  /\ Answered(i, "load")
  /\ LET c == calls[i]
         todos == c.resp
         L1 == lis \o [k \in 1..Len(todos) |-> NewLi(todos[k], 0)]
         list1 == todoList \o [k \in 1..Len(todos) |-> Len(lis) + k]
     IN  IF Outcome(c) = "ok"
         THEN /\ todoList' = list1
              /\ lis' = ApplyFilter(L1, list1, currentFilter)
              /\ taskCount' = Counts(L1, list1)
         ELSE UNCHANGED <<lis, todoList, taskCount>>
  /\ calls' = RemoveAt(calls, i)
  /\ loading' = FALSE
  /\ loaded' = Outcome(calls[i])
  /\ synced' = (synced \/ Outcome(calls[i]) = "ok")
  /\ last' = Event("loadTodos", 0, Outcome(calls[i]), FALSE, Toasts(calls[i]))
  /\ UNCHANGED <<store, nextId, bulks, todoInput, currentFilter, nCmds>>

\* Variant of LoadTodosDone: the list is emptied when the request fails too.
LoadTodosDoneClearsOnError(i) ==
  /\ Answered(i, "load")
  /\ LET c == calls[i]
         todos == c.resp
         L1 == lis \o [k \in 1..Len(todos) |-> NewLi(todos[k], 0)]
         list1 == [k \in 1..Len(todos) |-> Len(lis) + k]
     IN  IF Outcome(c) = "ok"
         THEN /\ todoList' = list1
              /\ lis' = ApplyFilter(L1, list1, currentFilter)
              /\ taskCount' = Counts(L1, list1)
         ELSE /\ todoList' = <<>>
              /\ UNCHANGED <<lis, taskCount>>
  /\ calls' = RemoveAt(calls, i)
  /\ loading' = FALSE
  /\ loaded' = Outcome(calls[i])
  /\ synced' = (synced \/ Outcome(calls[i]) = "ok")
  /\ last' = Event("loadTodos", 0, Outcome(calls[i]), FALSE, Toasts(calls[i]))
  /\ UNCHANGED <<store, nextId, bulks, todoInput, currentFilter, nCmds>>

LoadTodosDone(i) ==
  /\ Answered(i, "load")
  /\ LET c == calls[i]
         todos == c.resp
         L1 == lis \o [k \in 1..Len(todos) |-> NewLi(todos[k], 0)]
         list1 == [k \in 1..Len(todos) |-> Len(lis) + k]
     IN  IF Outcome(c) = "ok"
         THEN /\ todoList' = list1
              /\ lis' = ApplyFilter(L1, list1, currentFilter)
              /\ taskCount' = Counts(L1, list1)
         ELSE UNCHANGED <<lis, todoList, taskCount>>
  /\ calls' = RemoveAt(calls, i)
  /\ loading' = FALSE
  /\ loaded' = Outcome(calls[i])
  /\ synced' = (synced \/ Outcome(calls[i]) = "ok")
  /\ last' = Event("loadTodos", 0, Outcome(calls[i]), FALSE, Toasts(calls[i]))
  /\ UNCHANGED <<store, nextId, bulks, todoInput, currentFilter, nCmds>>

\* ---------------------------------------------------------------- addTodo
TypeTodoInput(t) ==
  /\ UserStep
  /\ t \in Texts
  /\ t # todoInput
  /\ todoInput' = t
  /\ last' = Event("type", 0, "done", FALSE, 0)
  /\ UNCHANGED <<store, nextId, lis, todoList, calls, bulks, loading,
                 currentFilter, taskCount>>

AddTodo ==
  /\ UserStep
  /\ LET todoText == TodoText(todoInput) IN
     IF todoText = <<>>
     THEN /\ last' = Event("addTodo", 0, "rejected", FALSE, 0)
          /\ UNCHANGED <<store, nextId, lis, todoList, calls, bulks, loading,
                         todoInput, currentFilter, taskCount>>
     ELSE /\ CanIssue(1)
          /\ calls' = Issue(calls, Call("POST", 0, [title |-> todoText, completed |-> FALSE],
                                        "add", 0, 0, FALSE, nCmds + 1))
          /\ loading' = TRUE
          /\ last' = Event("addTodo", 0, "issued", FALSE, 0)
          /\ UNCHANGED <<store, nextId, lis, todoList, bulks, todoInput,
                         currentFilter, taskCount>>

\* Variant of AddTodoDone: the element is created from the text sent even
\* when the request failed.
AddTodoDoneKeepsFailed(i) ==
  /\ Answered(i, "add")
  /\ LET c == calls[i]
         n == Len(lis) + 1
         todo == IF Outcome(c) = "ok" THEN c.resp[1]
                 ELSE [id |-> 0, title |-> c.body.title, completed |-> FALSE]
         L1 == Append(lis, NewLi(todo, c.seq))
         list1 == AppendChild(todoList, n)
     IN  /\ todoList' = list1
         /\ lis' = ApplyFilter(L1, list1, currentFilter)
         /\ todoInput' = <<>>
         /\ taskCount' = Counts(L1, list1)
         /\ last' = Event("addTodo", IF Outcome(c) = "ok" THEN n ELSE 0, Outcome(c),
                          FALSE, Toasts(c))
  /\ calls' = RemoveAt(calls, i)
  /\ loading' = FALSE
  /\ UNCHANGED <<store, nextId, bulks, currentFilter, nCmds, loaded>>
  /\ synced' = (synced \/ Outcome(calls[i]) = "ok")

AddTodoDone(i) ==
  /\ Answered(i, "add")
  /\ LET c == calls[i]
         n == Len(lis) + 1
         L1 == Append(lis, NewLi(c.resp[1], c.seq))
         list1 == AppendChild(todoList, n)
     IN  IF Outcome(c) = "ok"
         THEN /\ todoList' = list1
              /\ lis' = ApplyFilter(L1, list1, currentFilter)
              /\ todoInput' = <<>>
              /\ taskCount' = Counts(L1, list1)
              /\ last' = Event("addTodo", n, "ok", FALSE, 0)
         ELSE /\ last' = Event("addTodo", 0, "err", FALSE, 1)
              /\ UNCHANGED <<lis, todoList, todoInput, taskCount>>
  /\ calls' = RemoveAt(calls, i)
  /\ loading' = FALSE
  /\ UNCHANGED <<store, nextId, bulks, currentFilter, nCmds, loaded>>
  /\ synced' = (synced \/ Outcome(calls[i]) = "ok")


\* An element the user can act on: attached to the list and not filtered out.
Clickable(n) == n \in Range(todoList) /\ ~lis[n].hidden

\* ---------------------------------------------- contentDiv click (toggle)
\* Variant of ToggleClick: the element carries no todoId, so the handler
\* skips _updateTodo and only changes the page.
ToggleClickLocalOnly(n) ==
  /\ UserStep
  /\ Clickable(n)
  /\ ~lis[n].editing
  /\ LET L1 == [lis EXCEPT ![n] = ToggleClass(lis[n])] IN
       /\ lis' = ApplyFilter(L1, todoList, currentFilter)
       /\ taskCount' = Counts(L1, todoList)
  /\ last' = Event("toggle", n, "done", lis[n].completed, 0)
  /\ UNCHANGED <<store, nextId, todoList, calls, bulks, loading, todoInput,
                 currentFilter>>

\* Variant of ToggleClick: the test of the "editing" class is left out.
ToggleClickUnguarded(n) ==
  /\ UserStep
  /\ Clickable(n)
  /\ CanIssue(1)
  /\ LET li == [ToggleClass(lis[n]) EXCEPT
                  !.overlap = \E i \in DOMAIN calls :
                                calls[i].handler = "toggle" /\ calls[i].li = n]
     IN
       /\ lis' = [lis EXCEPT ![n] = li]
       /\ calls' = Issue(calls, Call("PUT", li.todoId,
                                     [title |-> li.taskText, completed |-> li.completed],
                                     "toggle", n, 0, lis[n].completed, 0))
  /\ loading' = TRUE
  /\ last' = Event("toggle", n, "issued", lis[n].completed, 0)
  /\ UNCHANGED <<store, nextId, todoList, bulks, todoInput, currentFilter,
                 taskCount>>

\* the click handler of contentDiv up to its await; on an element in editing
\* mode the handler does nothing
ToggleClick(n) ==
  /\ UserStep
  /\ Clickable(n)
  /\ IF lis[n].editing
     THEN /\ last' = Event("toggle", n, "ignored", lis[n].completed, 0)
          /\ UNCHANGED <<lis, calls, loading>>
     ELSE /\ CanIssue(1)
          /\ LET li == [ToggleClass(lis[n]) EXCEPT
                          !.overlap = \E i \in DOMAIN calls :
                                        calls[i].handler = "toggle" /\ calls[i].li = n]
             IN
               /\ lis' = [lis EXCEPT ![n] = li]
               /\ calls' = Issue(calls, Call("PUT", li.todoId,
                                             [title |-> li.taskText, completed |-> li.completed],
                                             "toggle", n, 0, lis[n].completed, 0))
          /\ loading' = TRUE
          /\ last' = Event("toggle", n, "issued", lis[n].completed, 0)
  /\ UNCHANGED <<store, nextId, todoList, bulks, todoInput, currentFilter,
                 taskCount>>

\* Variant of ToggleDone: the catch branch looks the element up in the list
\* (its first child) instead of using the li captured by the handler.
ToggleDoneFirstChild(i) ==
  /\ Answered(i, "toggle")
  /\ LET c == calls[i]
         n == IF Outcome(c) = "err" /\ todoList # <<>> THEN todoList[1] ELSE c.li
         li == IF Outcome(c) = "ok"
               THEN [lis[n] EXCEPT !.seqCompleted = ~lis[n].seqCompleted]
               ELSE ToggleRollback(lis[n], c.was)
         L1 == [lis EXCEPT ![n] = li]
     IN  /\ lis' = ApplyFilter(L1, todoList, currentFilter)
         /\ taskCount' = Counts(L1, todoList)
         /\ last' = Event("toggle", c.li, Outcome(c), c.was, Toasts(c))
  /\ calls' = RemoveAt(calls, i)
  /\ loading' = FALSE
  /\ UNCHANGED <<store, nextId, todoList, bulks, todoInput, currentFilter, nCmds, loaded>>
  /\ synced' = (synced \/ Outcome(calls[i]) = "ok")

ToggleDone(i) ==
  /\ Answered(i, "toggle")
  /\ LET c == calls[i]
         n == c.li
         others == \E j \in DOMAIN calls :
                     j # i /\ calls[j].handler = "toggle" /\ calls[j].li = n
         run == Append(lis[n].trip, c.was)
         li0 == IF Outcome(c) = "ok"
                THEN [lis[n] EXCEPT !.seqCompleted = ~lis[n].seqCompleted]
                ELSE ToggleRollback(lis[n], c.was)
         li == [li0 EXCEPT
                  !.trip = IF Outcome(c) = "err" \/ lis[n].overlap THEN <<>>
                           ELSE IF Len(run) > 2 THEN Tail(run) ELSE run,
                  !.overlap = lis[n].overlap /\ others]
         L1 == [lis EXCEPT ![n] = li]
     IN  /\ lis' = ApplyFilter(L1, todoList, currentFilter)
         /\ taskCount' = Counts(L1, todoList)
         /\ last' = Event("toggle", n, Outcome(c), c.was, Toasts(c))
  /\ calls' = RemoveAt(calls, i)
  /\ loading' = FALSE
  /\ UNCHANGED <<store, nextId, todoList, bulks, todoInput, currentFilter, nCmds, loaded>>
  /\ synced' = (synced \/ Outcome(calls[i]) = "ok")

\* ------------------------------------------------------ deleteButton click
DeleteClick(n) ==
  /\ UserStep
  /\ Clickable(n)
  /\ CanIssue(1)
  /\ calls' = Issue(calls, Call("DELETE", lis[n].todoId, NoBody, "delete", n, 0, FALSE, 0))
  /\ loading' = TRUE
  /\ last' = Event("delete", n, "issued", FALSE, 0)
  /\ UNCHANGED <<store, nextId, lis, todoList, bulks, todoInput, currentFilter,
                 taskCount>>

\* li.remove() moved out of the try block: the element goes whatever the answer
DeleteDoneAlwaysRemoves(i) ==
  /\ Answered(i, "delete")
  /\ LET c == calls[i]
         list1 == RemoveChild(todoList, c.li)
     IN  /\ todoList' = list1
         /\ lis' = ApplyFilter(lis, list1, currentFilter)
         /\ taskCount' = Counts(lis, list1)
         /\ last' = Event("delete", c.li, Outcome(c), FALSE, Toasts(c))
  /\ calls' = RemoveAt(calls, i)
  /\ loading' = FALSE
  /\ UNCHANGED <<store, nextId, bulks, todoInput, currentFilter, nCmds, loaded>>
  /\ synced' = (synced \/ Outcome(calls[i]) = "ok")

\* Variant of DeleteDone: _hideLoading at the end of the try block of
\* _apiRequest instead of its finally block.
DeleteDoneHidesInTry(i) ==
  /\ Answered(i, "delete")
  /\ LET c == calls[i]
         list1 == RemoveChild(todoList, c.li)
     IN  /\ IF Outcome(c) = "ok"
            THEN /\ todoList' = list1
                 /\ lis' = ApplyFilter(lis, list1, currentFilter)
                 /\ taskCount' = Counts(lis, list1)
                 /\ loading' = FALSE
            ELSE UNCHANGED <<lis, todoList, taskCount, loading>>
         /\ last' = Event("delete", c.li, Outcome(c), FALSE, Toasts(c))
  /\ calls' = RemoveAt(calls, i)
  /\ UNCHANGED <<store, nextId, bulks, todoInput, currentFilter, nCmds, loaded>>
  /\ synced' = (synced \/ Outcome(calls[i]) = "ok")

DeleteDone(i) ==
  /\ Answered(i, "delete")
  /\ LET c == calls[i]
         list1 == RemoveChild(todoList, c.li)
     IN  /\ IF Outcome(c) = "ok"
            THEN /\ todoList' = list1
                 /\ lis' = ApplyFilter(lis, list1, currentFilter)
                 /\ taskCount' = Counts(lis, list1)
            ELSE UNCHANGED <<lis, todoList, taskCount>>
         /\ last' = Event("delete", c.li, Outcome(c), FALSE, Toasts(c))
  /\ calls' = RemoveAt(calls, i)
  /\ loading' = FALSE
  /\ UNCHANGED <<store, nextId, bulks, todoInput, currentFilter, nCmds, loaded>>
  /\ synced' = (synced \/ Outcome(calls[i]) = "ok")

\* ------------------------------------------------------------------ edit
EnterEditMode(n) ==
  /\ UserStep
  /\ Clickable(n)
  /\ ~lis[n].editing
  /\ lis' = [lis EXCEPT ![n].editing = TRUE]
  /\ last' = Event("enterEdit", n, "done", FALSE, 0)
  /\ UNCHANGED <<store, nextId, todoList, calls, bulks, loading, todoInput,
                 currentFilter, taskCount>>

TypeEditInput(n, t) ==
  /\ UserStep
  /\ Clickable(n)
  /\ lis[n].editing
  /\ t \in Texts
  /\ t # lis[n].editInput
  /\ lis' = [lis EXCEPT ![n].editInput = t]
  /\ last' = Event("typeEdit", n, "done", FALSE, 0)
  /\ UNCHANGED <<store, nextId, todoList, calls, bulks, loading, todoInput,
                 currentFilter, taskCount>>

\* Variant of CancelEdit: editInput.value is left as typed.
CancelEditKeepsInput(n) ==
  /\ UserStep
  /\ Clickable(n)
  /\ lis[n].editing
  /\ lis' = [lis EXCEPT ![n].editing = FALSE]
  /\ last' = Event("cancelEdit", n, "done", lis[n].editInput # lis[n].taskText, 0)
  /\ UNCHANGED <<store, nextId, todoList, calls, bulks, loading, todoInput,
                 currentFilter, taskCount>>

\* _cancelEdit; the event records whether the field held another text than
\* the title
CancelEdit(n) ==
  /\ UserStep
  /\ Clickable(n)
  /\ lis[n].editing
  /\ lis' = [lis EXCEPT ![n].editInput = lis[n].taskText, ![n].editing = FALSE]
  /\ last' = Event("cancelEdit", n, "done", lis[n].editInput # lis[n].taskText, 0)
  /\ UNCHANGED <<store, nextId, todoList, calls, bulks, loading, todoInput,
                 currentFilter, taskCount>>

\* Variant of SaveEdit: the test of an empty newText is left out.
SaveEditUnchecked(n) ==
  /\ UserStep
  /\ Clickable(n)
  /\ lis[n].editing
  /\ LET newText == TodoText(lis[n].editInput) IN
       /\ CanIssue(1)
       /\ calls' = Issue(calls, Call("PUT", lis[n].todoId,
                                     [title |-> newText, completed |-> lis[n].completed],
                                     "edit", n, 0, FALSE, 0))
       /\ loading' = TRUE
       /\ last' = Event("saveEdit", n, "issued", FALSE, 0)
  /\ UNCHANGED <<store, nextId, lis, todoList, bulks, todoInput, currentFilter,
                 taskCount>>

SaveEdit(n) ==
  /\ UserStep
  /\ Clickable(n)
  /\ lis[n].editing
  /\ LET newText == TodoText(lis[n].editInput) IN
       IF newText = <<>>
       THEN /\ last' = Event("saveEdit", n, "rejected", FALSE, 0)
            /\ UNCHANGED <<calls, loading>>
       ELSE /\ CanIssue(1)
            /\ calls' = Issue(calls, Call("PUT", lis[n].todoId,
                                          [title |-> newText, completed |-> lis[n].completed],
                                          "edit", n, 0, FALSE, 0))
            /\ loading' = TRUE
            /\ last' = Event("saveEdit", n, "issued", FALSE, 0)
  /\ UNCHANGED <<store, nextId, lis, todoList, bulks, todoInput, currentFilter,
                 taskCount>>

\* Variant of SaveEditDone: the new text is written to the element whatever
\* the answer.
SaveEditDoneAlwaysApplies(i) ==
  /\ Answered(i, "edit")
  /\ LET c == calls[i]
         n == c.li
         L1 == [lis EXCEPT ![n].taskText = c.body.title,
                           ![n].editInput = c.body.title,
                           ![n].editing = FALSE]
     IN  /\ lis' = L1
         /\ taskCount' = Counts(L1, todoList)
         /\ last' = Event("saveEdit", n, Outcome(c), FALSE, Toasts(c))
  /\ calls' = RemoveAt(calls, i)
  /\ loading' = FALSE
  /\ UNCHANGED <<store, nextId, todoList, bulks, todoInput, currentFilter, nCmds, loaded>>
  /\ synced' = (synced \/ Outcome(calls[i]) = "ok")

SaveEditDone(i) ==
  /\ Answered(i, "edit")
  /\ LET c == calls[i]
         n == c.li
         L1 == [lis EXCEPT ![n].taskText = c.body.title,
                           ![n].editInput = c.body.title,
                           ![n].editing = FALSE]
     IN  /\ IF Outcome(c) = "ok"
            THEN /\ lis' = L1
                 /\ taskCount' = Counts(L1, todoList)
            ELSE UNCHANGED <<lis, taskCount>>
         /\ last' = Event("saveEdit", n, Outcome(c), FALSE, Toasts(c))
  /\ calls' = RemoveAt(calls, i)
  /\ loading' = FALSE
  /\ UNCHANGED <<store, nextId, todoList, bulks, todoInput, currentFilter, nCmds, loaded>>
  /\ synced' = (synced \/ Outcome(calls[i]) = "ok")

\* ---------------------------------------- clearAllTodos / clearCompletedTodos
FreeBulks == { b \in DOMAIN bulks : bulks[b].kind = "free" }

\* deletePromises: one _deleteTodo per captured element, all issued at once
BulkCalls(targets, b) ==
  [k \in DOMAIN targets |->
     Call("DELETE", lis[targets[k]].todoId, NoBody, "bulk", targets[k], b, FALSE, 0)]

\* Variant of CompletedTasks: the selector is "li" instead of "li.completed".
CompletedTasksAnyLi == todoList

\* querySelectorAll("li.completed"): the static list of the completed elements
CompletedTasks == SelectSeq(todoList, LAMBDA n : lis[n].completed)

\* Variant of ClearAllTodos: the answer given to confirm() is not tested.
ClearAllTodosUnconfirmed(confirmed) ==
  /\ UserStep
  /\ IF Len(todoList) = 0
     THEN /\ last' = Event("clearAll", 0, "rejected", FALSE, 0)
          /\ UNCHANGED <<store, nextId, lis, todoList, calls, bulks, loading,
                         todoInput, currentFilter, taskCount>>
     ELSE /\ FreeBulks # {}
          /\ CanIssue(Len(todoList))
          /\ LET b == CHOOSE x \in FreeBulks : \A y \in FreeBulks : x <= y IN
               /\ calls' = calls \o BulkCalls(todoList, b)
               /\ bulks' = [bulks EXCEPT ![b] = [kind |-> "clearAll", lis |-> todoList,
                                                 pending |-> Len(todoList),
                                                 settled |-> FALSE, ok |-> {}, notes |-> 0]]
          /\ loading' = TRUE
          /\ last' = Event("clearAll", 0, IF confirmed THEN "issued" ELSE "declined",
                           FALSE, 0)
          /\ UNCHANGED <<store, nextId, lis, todoList, todoInput, currentFilter,
                         taskCount>>

ClearAllTodos(confirmed) ==
  /\ UserStep
  /\ IF Len(todoList) = 0
     THEN /\ last' = Event("clearAll", 0, "rejected", FALSE, 0)
          /\ UNCHANGED <<store, nextId, lis, todoList, calls, bulks, loading,
                         todoInput, currentFilter, taskCount>>
     ELSE IF ~confirmed
     THEN /\ last' = Event("clearAll", 0, "declined", FALSE, 0)
          /\ UNCHANGED <<store, nextId, lis, todoList, calls, bulks, loading,
                         todoInput, currentFilter, taskCount>>
     ELSE /\ FreeBulks # {}
          /\ CanIssue(Len(todoList))
          /\ LET b == CHOOSE x \in FreeBulks : \A y \in FreeBulks : x <= y IN
               /\ calls' = calls \o BulkCalls(todoList, b)
               /\ bulks' = [bulks EXCEPT ![b] = [kind |-> "clearAll", lis |-> todoList,
                                                 pending |-> Len(todoList),
                                                 settled |-> FALSE, ok |-> {}, notes |-> 0]]
          /\ loading' = TRUE
          /\ last' = Event("clearAll", 0, "issued", FALSE, 0)
          /\ UNCHANGED <<store, nextId, lis, todoList, todoInput, currentFilter,
                         taskCount>>

ClearCompletedTodos(confirmed) ==
  /\ UserStep
  /\ IF Len(CompletedTasks) = 0
     THEN /\ last' = Event("clearCompleted", 0, "rejected", FALSE, 0)
          /\ UNCHANGED <<store, nextId, lis, todoList, calls, bulks, loading,
                         todoInput, currentFilter, taskCount>>
     ELSE IF ~confirmed
     THEN /\ last' = Event("clearCompleted", 0, "declined", FALSE, 0)
          /\ UNCHANGED <<store, nextId, lis, todoList, calls, bulks, loading,
                         todoInput, currentFilter, taskCount>>
     ELSE /\ FreeBulks # {}
          /\ CanIssue(Len(CompletedTasks))
          /\ LET b == CHOOSE x \in FreeBulks : \A y \in FreeBulks : x <= y IN
               /\ calls' = calls \o BulkCalls(CompletedTasks, b)
               /\ bulks' = [bulks EXCEPT ![b] = [kind |-> "clearCompleted",
                                                 lis |-> CompletedTasks,
                                                 pending |-> Len(CompletedTasks),
                                                 settled |-> FALSE, ok |-> {}, notes |-> 0]]
          /\ loading' = TRUE
          /\ last' = Event("clearCompleted", 0, "issued", FALSE, 0)
          /\ UNCHANGED <<store, nextId, lis, todoList, todoInput, currentFilter,
                         taskCount>>

\* The list once Promise.all(deletePromises) has fulfilled.

BulkCleared(kind, list, targets) ==
  IF kind = "clearAll" THEN <<>> ELSE Without(list, Range(targets))

\* One delete of a bulk clear is answered.  Promise.all rejects on the first
\* failure (catch: alert) and fulfils when the last delete has succeeded
\* (the list is cleared); answers after a rejection change nothing.
BulkDeleteDone(i) ==
  /\ Answered(i, "bulk")
  /\ LET c == calls[i]
         b == c.bulk
         B == bulks[b]
         left == B.pending - 1
         shown == IF B.settled THEN Toasts(c)
                  ELSE IF Outcome(c) = "err" THEN 2 ELSE 0
         B1 == IF left = 0 THEN FreeBulk
               ELSE [B EXCEPT !.pending = left,
                              !.settled = B.settled \/ Outcome(c) = "err",
                              !.ok = IF Outcome(c) = "ok" THEN B.ok \cup {c.li}
                                     ELSE B.ok,
                              !.notes = B.notes + shown]
         list1 == BulkCleared(B.kind, todoList, B.lis)
     IN  /\ bulks' = [bulks EXCEPT ![b] = B1]
         /\ IF B.settled
            THEN /\ last' = Event(B.kind, c.li, "late", FALSE, shown)
                 /\ UNCHANGED <<lis, todoList, taskCount>>
            ELSE IF Outcome(c) = "err"
            THEN /\ last' = Event(B.kind, c.li, "err", FALSE, shown)
                 /\ UNCHANGED <<lis, todoList, taskCount>>
            ELSE IF left > 0
            THEN /\ last' = Event(B.kind, c.li, "partial", FALSE, 0)
                 /\ UNCHANGED <<lis, todoList, taskCount>>
            ELSE /\ todoList' = list1
                 /\ lis' = IF B.kind = "clearAll" THEN lis
                           ELSE ApplyFilter(lis, list1, currentFilter)
                 /\ taskCount' = Counts(lis, list1)
                 /\ last' = Event(B.kind, c.li, "ok", FALSE, 0)
  /\ calls' = RemoveAt(calls, i)
  /\ loading' = FALSE
  /\ UNCHANGED <<store, nextId, todoInput, currentFilter, nCmds, loaded>>
  /\ synced' = (synced \/ last'.outcome = "ok")

\* ------------------------------------------------- filter button click
HandleFilterChange(f) ==
  /\ UserStep
  /\ f \in Filters
  /\ f # currentFilter
  /\ currentFilter' = f
  /\ lis' = ApplyFilter(lis, todoList, f)
  /\ last' = Event("filter", 0, "done", FALSE, 0)
  /\ UNCHANGED <<store, nextId, todoList, calls, bulks, loading, todoInput,
                 taskCount>>

\* ------------------------------------------------------------------ Next

Next ==
  \/ \E i \in DOMAIN calls : ServerHandle(i)
  \/ \E i \in DOMAIN calls : LoadTodosDone(i)
  \/ \E t \in Texts : TypeTodoInput(t)
  \/ AddTodo
  \/ \E i \in DOMAIN calls : AddTodoDone(i)
  \/ \E n \in DOMAIN lis : ToggleClick(n)
  \/ \E i \in DOMAIN calls : ToggleDone(i)
  \/ \E n \in DOMAIN lis : DeleteClick(n)
  \/ \E i \in DOMAIN calls : DeleteDone(i)
  \/ \E n \in DOMAIN lis : EnterEditMode(n)
  \/ \E n \in DOMAIN lis, t \in Texts : TypeEditInput(n, t)
  \/ \E n \in DOMAIN lis : CancelEdit(n)
  \/ \E n \in DOMAIN lis : SaveEdit(n)
  \/ \E i \in DOMAIN calls : SaveEditDone(i)
  \/ \E c \in BOOLEAN : ClearAllTodos(c)
  \/ \E c \in BOOLEAN : ClearCompletedTodos(c)
  \/ \E i \in DOMAIN calls : BulkDeleteDone(i)
  \/ \E f \in Filters : HandleFilterChange(f)

Spec == Init /\ [][Next]_vars

\* the fetch of call i settles, _apiRequest returns or throws, and the handler
\* that awaited it runs to its end
Respond(i) ==
  \/ LoadTodosDone(i)
  \/ AddTodoDone(i)
  \/ ToggleDone(i)
  \/ DeleteDone(i)
  \/ SaveEditDone(i)
  \/ BulkDeleteDone(i)

Responds == \E i \in DOMAIN calls : Respond(i)

\* Every call in flight receives a response, success or failure: as long as
\* calls are in flight one of them is answered.
LiveSpec == Init /\ [][Next]_vars /\ WF_vars(Responds)

\* ======================================================================
\* Properties
\* ======================================================================
InFlight == calls # <<>>

ListedIds == { lis[n].todoId : n \in Range(todoList) }

TogglesInFlight(n) ==
  { i \in DOMAIN calls : calls[i].handler = "toggle" /\ calls[i].li = n }

IsMutation(c) == c.method \in {"PUT", "DELETE"}

\* The step is the user action `op` (a click or a typed text).
UserDid(op) == nCmds' = nCmds + 1 /\ last'.op = op

\* The step is the continuation of handler `op` after its remote call.
Resolved(op, outcome) ==
  /\ nCmds' = nCmds
  /\ Len(calls') = Len(calls) - 1
  /\ last'.op = op
  /\ last'.outcome = outcome

\* C1 -- Rollback fidelity: when the PUT of a toggle fails, then once that
\* toggle's handler has finished the task's `completed` value equals the value
\* it had immediately before that toggle was issued, under every interleaving
\* with other commands.
C1_RollbackFidelity ==
  (last.op = "toggle" /\ last.outcome = "err")
    => lis[last.li].completed = last.was

\* C2 -- Serialization correctness: once every toggle issued on a task has
\* resolved, its `completed` value is the one obtained by running the toggles
\* one after the other (each success flips the value, each failure leaves
\* it), whatever the success/failure pattern and the order of the responses.
C2_SerializationCorrectness ==
  \A n \in DOMAIN lis :
    TogglesInFlight(n) = {} => lis[n].completed = lis[n].seqCompleted

\* Two overlapping toggles have both resolved: the value left by the last
\* response is not the one that toggle alone would have left.
C2_Witness ==
  /\ last.op = "toggle"
  /\ last.outcome \in {"ok", "err"}
  /\ TogglesInFlight(last.li) = {}
  /\ lis[last.li].completed #
       (IF last.outcome = "err" THEN last.was ELSE ~last.was)

\* C3 -- Per-identifier serialization: for each task id at most one remote
\* mutation call (PUT or DELETE) addressed to that id is in flight.
C3_PerIdSerialization ==
  \A i, j \in DOMAIN calls :
    (i # j /\ IsMutation(calls[i]) /\ IsMutation(calls[j]))
      => calls[i].id # calls[j].id

\* C4 -- Busy signal: while at least one remote call is in flight the loading
\* indicator is active.
C4_BusySignal == InFlight => loading

\* C5 -- Client/store membership consistency: once the initial load has
\* succeeded, whenever no remote call is in flight the ids shown in the list
\* are exactly the ids the store holds.
C5_MembershipConsistency ==
  (loaded = "ok" /\ ~InFlight) => ListedIds = StoreIds

\* C6 -- Bulk partial-failure policy: when the last delete of a bulk clear is
\* answered and some deletes succeeded while at least one failed, every task
\* whose delete succeeded is absent from the list and every task whose delete
\* failed is still in it (the tasks of the bulk clear having distinct ids).
C6_BulkPartialFailure ==
  [][ \A b \in DOMAIN bulks, i \in DOMAIN calls :
        ( /\ bulks[b].kind # "free"
          /\ \A m, n \in Range(bulks[b].lis) :
                m # n => lis[m].todoId # lis[n].todoId
          /\ bulks'[b].kind = "free"
          /\ calls[i].handler = "bulk"
          /\ calls[i].bulk = b
          /\ calls' = RemoveAt(calls, i) )
        => LET okSet == bulks[b].ok \cup
                          (IF Outcome(calls[i]) = "ok" THEN {calls[i].li} ELSE {})
               errSet == Range(bulks[b].lis) \ okSet
           IN  (okSet # {} /\ errSet # {})
                 => /\ \A n \in okSet : n \notin Range(todoList')
                    /\ \A n \in errSet : n \in Range(todoList') ]_vars

\* C7 -- Identifier uniqueness: no two entries of the list carry the same
\* task identifier.
C7_IdentifierUniqueness ==
  \A j, k \in DOMAIN todoList :
    j # k => lis[todoList[j]].todoId # lis[todoList[k]].todoId

\* C8 -- An Add whose remote create succeeds adds exactly one new task: the
\* list gains one entry and keeps all the others, the new task has
\* completed = FALSE, is visible under the filters all and active and hidden
\* under the filter completed.
C8_AddCreatesOneActiveTask ==
  [][ Resolved("addTodo", "ok")
        => LET n == last'.li IN
           /\ n \notin Range(todoList)
           /\ Len(todoList') = Len(todoList) + 1
           /\ Range(todoList') = Range(todoList) \cup {n}
           /\ \A m \in Range(todoList) :
                /\ lis'[m].todoId = lis[m].todoId
                /\ lis'[m].taskText = lis[m].taskText
                /\ lis'[m].completed = lis[m].completed
           /\ ~IsBlank(lis'[n].taskText)
           /\ lis'[n].completed = FALSE
           /\ lis'[n].hidden = (currentFilter = "completed")
           /\ taskCount'.total = Len(todoList)  + 1 ]_vars

\* A create has succeeded and its task is listed next to an older one.
C8_Witness ==
  /\ last.op = "addTodo"
  /\ last.outcome = "ok"
  /\ last.li \in Range(todoList)
  /\ Len(todoList) >= 2

\* C9 -- Add with an empty or whitespace-only title leaves the list unchanged
\* and issues no remote call.
C9_BlankAddRejected ==
  [][ (UserDid("addTodo") /\ IsBlank(todoInput))
        => /\ last'.outcome = "rejected"
           /\ UNCHANGED <<calls, lis, todoList, taskCount, loading, store>> ]_vars

\* addTodo has just been rejected on a whitespace-only text.
C9_Witness ==
  /\ last.op = "addTodo"
  /\ last.outcome = "rejected"
  /\ todoInput = <<" ">>

\* Add-created entries of the list are in the order their commands were issued.
AddsInIssueOrder(L, list) ==
  \A j, k \in DOMAIN list :
    (j < k /\ L[list[j]].addSeq > 0 /\ L[list[k]].addSeq > 0)
      => L[list[j]].addSeq < L[list[k]].addSeq

C11_DeleteRollback ==
  [][ Resolved("delete", "err")
        => /\ todoList' = todoList
           /\ \A n \in Range(todoList) :
                /\ lis'[n].todoId = lis[n].todoId
                /\ lis'[n].taskText = lis[n].taskText
                /\ lis'[n].completed = lis[n].completed
                /\ lis'[n].hidden = lis[n].hidden
           /\ \E i \in DOMAIN calls :
                /\ calls[i].handler = "delete"
                /\ calls[i].li = last'.li
                /\ calls[i].phase = "sent"
                /\ calls' = RemoveAt(calls, i)
           /\ store' = store ]_vars

\* A delete has failed and its task is still listed and visible.
C11_Witness ==
  /\ last.op = "delete"
  /\ last.outcome = "err"
  /\ last.li \in Range(todoList)
  /\ ~lis[last.li].hidden

\* The latest two toggles of element n succeeded one after the other, and
\* the second has just been answered.
RoundTripDone(n) ==
  /\ last.op = "toggle"
  /\ last.outcome = "ok"
  /\ last.li = n
  /\ Len(lis[n].trip) = 2

\* C12 (as claimed) -- Toggle round-trip: two toggles of a task run one after
\* the other, both successful, return it to its original `completed` value
\* and leave its completion time cleared, whichever the original value.
C12_ToggleRoundTrip ==
  \A n \in DOMAIN lis :
    RoundTripDone(n) => /\ lis[n].completed = lis[n].trip[1]
                        /\ ~lis[n].completedTime

\* C12 (amended) -- Two toggles of a task run one after the other, both
\* successful, return it to its original `completed` value; its completion
\* time is cleared when that value is false and set when it is true.
C12_RoundTripRestoresCompleted ==
  \A n \in DOMAIN lis :
    RoundTripDone(n) => /\ lis[n].completed = lis[n].trip[1]
                        /\ lis[n].completedTime = lis[n].trip[1]

\* A task that was completed has been toggled off and on again.
C12_Witness ==
  \E n \in Range(todoList) : RoundTripDone(n) /\ lis[n].trip[1]

\* C13 -- Completion-time coupling: a listed task with no toggle in flight has
\* a completion time only if its `completed` value is true; in particular
\* after a toggle that failed and was rolled back.
C13_CompletedTimeCoupling ==
  \A n \in Range(todoList) :
    TogglesInFlight(n) = {} => (lis[n].completedTime => lis[n].completed)

\* The step ends a handler on a path that calls _updateTaskCounter.
Recounted ==
  \/ Resolved("loadTodos", "ok")
  \/ Resolved("addTodo", "ok")
  \/ Resolved("toggle", "ok")
  \/ Resolved("toggle", "err")
  \/ Resolved("delete", "ok")
  \/ Resolved("saveEdit", "ok")
  \/ Resolved("clearAll", "ok")
  \/ Resolved("clearCompleted", "ok")

\* C14 -- Counter arithmetic: the displayed counter always satisfies
\* total = active + completed, and each time it is recomputed `active` is the
\* number of listed tasks not completed, `completed` the number of listed
\* tasks completed and `total` the length of the list.
C14_CounterArithmetic ==
  [][ /\ taskCount'.total = taskCount'.active + taskCount'.completed
      /\ Recounted
           => /\ taskCount'.total = Len(todoList')
              /\ taskCount'.active =
                   Cardinality({ n \in Range(todoList') : lis'[n].completed = FALSE })
              /\ taskCount'.completed =
                   Cardinality({ n \in Range(todoList') : lis'[n].completed = TRUE }) ]_vars

\* The counter has been recomputed over one active and one completed task.
C14_Witness ==
  /\ last.op = "addTodo"
  /\ last.outcome = "ok"
  /\ taskCount = [total |-> 2, active |-> 1, completed |-> 1]

\* The step ends on a call of _applyFilter.
Filtered ==
  \/ UserDid("filter")
  \/ Resolved("loadTodos", "ok")
  \/ Resolved("addTodo", "ok")
  \/ Resolved("toggle", "ok")
  \/ Resolved("toggle", "err")
  \/ Resolved("delete", "ok")
  \/ Resolved("clearCompleted", "ok")

\* The listed elements that are shown, in list order.
Visible(L, list) == SelectSeq(list, LAMBDA n : ~L[n].hidden)

\* C15 -- Filter semantics: right after the filter has been applied, a listed
\* task is visible under `active` iff it is not completed, under `completed`
\* iff it is completed, and always under `all`; choosing a filter reorders
\* nothing, so the visible tasks are the matching ones in list order.
C15_FilterSemantics ==
  [][ /\ Filtered
           => \A n \in Range(todoList') :
                /\ currentFilter' = "all" => ~lis'[n].hidden
                /\ currentFilter' = "active"
                     => (~lis'[n].hidden <=> ~lis'[n].completed)
                /\ currentFilter' = "completed"
                     => (~lis'[n].hidden <=> lis'[n].completed)
      /\ UserDid("filter")
           => /\ todoList' = todoList
              /\ \A n \in DOMAIN lis : lis'[n].completed = lis[n].completed
              /\ Visible(lis', todoList') =
                   SelectSeq(todoList,
                             LAMBDA n : \/ currentFilter' = "all"
                                        \/ currentFilter' = "active" /\ ~lis[n].completed
                                        \/ currentFilter' = "completed" /\ lis[n].completed)
      ]_vars

\* The filter `active` has just been chosen on a list of one completed and one
\* active task: only the active one is shown and the counter reads 2 / 1 / 1.
C15_Witness ==
  /\ last.op = "filter"
  /\ currentFilter = "active"
  /\ Len(todoList) = 2
  /\ Len(Visible(lis, todoList)) = 1
  /\ ~lis[Visible(lis, todoList)[1]].completed
  /\ taskCount = [total |-> 2, active |-> 1, completed |-> 1]

\* C16 -- View consistency: when no remote call is in flight and a load or a
\* mutation has completed successfully, the displayed counter gives the
\* total, active and completed numbers of the current list, and every listed
\* task is hidden exactly when the current filter excludes its `completed`
\* value.
C16_ViewConsistency ==
  (~InFlight /\ synced)
    => /\ taskCount.total = Len(todoList)
       /\ taskCount.active =
            Cardinality({ n \in Range(todoList) : ~lis[n].completed })
       /\ taskCount.completed =
            Cardinality({ n \in Range(todoList) : lis[n].completed })
       /\ \A n \in Range(todoList) :
            lis[n].hidden <=>
              \/ currentFilter = "active" /\ lis[n].completed
              \/ currentFilter = "completed" /\ ~lis[n].completed

\* Nothing is in flight after a toggle whose task the filter now hides.
C16_Witness ==
  /\ ~InFlight
  /\ synced
  /\ last.op = "toggle"
  /\ last.outcome = "ok"
  /\ last.li \in Range(todoList)
  /\ lis[last.li].hidden

\* C17 -- Zero-affected bulk clear: ClearCompleted on a list without completed
\* task, and ClearAll on an empty list, issue no remote call and leave the
\* list, its elements, the counter, the filter and the store as they were.
C17_ZeroAffectedBulkClear ==
  [][ ( \/ /\ UserDid("clearCompleted")
           /\ \A n \in Range(todoList) : ~lis[n].completed
        \/ /\ UserDid("clearAll")
           /\ todoList = <<>> )
        => UNCHANGED <<calls, bulks, todoList, lis, taskCount, currentFilter,
                       store, loading>> ]_vars

\* ClearCompleted has just been used on a list holding only active tasks.
C17_Witness ==
  /\ last.op = "clearCompleted"
  /\ last.outcome = "rejected"
  /\ todoList # <<>>
  /\ calls = <<>>

\* The step is a bulk clear at whose confirm() dialog the user answered `no`.
Declined ==
  /\ UserDid("clearAll") \/ UserDid("clearCompleted")
  /\ last'.outcome = "declined"

\* The step is a bulk clear at whose confirm() dialog the user answered `yes`.
Accepted ==
  /\ UserDid("clearAll") \/ UserDid("clearCompleted")
  /\ last'.outcome = "issued"

\* C18 -- Confirmation gate: a ClearAll or ClearCompleted whose confirmation
\* is declined issues no remote call and leaves the list unchanged; the
\* deletes of a bulk clear are issued only by a step in which the user
\* accepted.
C18_ConfirmationGate ==
  [][ /\ Declined
           => UNCHANGED <<calls, bulks, todoList, lis, taskCount, store, loading>>
      /\ ( /\ Len(calls') > Len(calls)
           /\ calls'[Len(calls')].handler = "bulk" )
           => Accepted ]_vars

\* A bulk clear of a non-empty list has just been declined.
C18_Witness ==
  /\ last.op \in {"clearAll", "clearCompleted"}
  /\ last.outcome = "declined"
  /\ todoList # <<>>

\* C19 -- Single failure notification: a command that ends in a remote
\* failure raises exactly one error notification; for a bulk clear, the
\* notifications raised from its first delete answered to its last add up to
\* one, however many of its deletes failed.
C19_SingleFailureNotification ==
  [][ /\ ( \/ Resolved("loadTodos", "err")
           \/ Resolved("addTodo", "err")
           \/ Resolved("toggle", "err")
           \/ Resolved("delete", "err")
           \/ Resolved("saveEdit", "err") )
           => last'.notes = 1
      /\ \A b \in DOMAIN bulks :
           ( /\ bulks[b].kind # "free"
             /\ bulks'[b].kind = "free"
             /\ bulks[b].settled \/ last'.outcome = "err" )
           => bulks[b].notes + last'.notes = 1 ]_vars

\* What a failed initial load does besides touching the list: one error
\* notification, and no list request in flight afterwards (no retry).
FailedLoadReported ==
  /\ last'.notes = 1
  /\ loaded' = "err"
  /\ \A j \in DOMAIN calls' : calls'[j].handler # "load"

\* An Add answered after the failed load still works: its task is appended.
AddAfterFailedLoad ==
  (loaded = "err" /\ Resolved("addTodo", "ok"))
    => /\ todoList' = todoList \o <<last'.li>>
       /\ ~lis'[last'.li].completed
       /\ todoInput' = <<>>

\* C20 (as claimed) -- Load failure: when the list request of the initial
\* load fails the list is empty afterwards, one error notification is raised,
\* the load is not retried, and a later Add behaves normally.
C20_FailedLoadLeavesEmptyList ==
  [][ /\ Resolved("loadTodos", "err")
           => /\ todoList' = <<>>
              /\ FailedLoadReported
      /\ AddAfterFailedLoad ]_vars

\* C20 (amended) -- When the list request of the initial load fails the list
\* stays as it was: it holds no loaded task, only the tasks of the Adds that
\* completed before the failure (none, unless the user added meanwhile); one
\* error notification is raised, the load is not retried, and a later Add
\* behaves normally.
C20_FailedLoadKeepsList ==
  [][ /\ Resolved("loadTodos", "err")
           => /\ UNCHANGED <<todoList, lis, taskCount, store>>
              /\ \A n \in Range(todoList') : lis'[n].addSeq > 0
              /\ FailedLoadReported
      /\ AddAfterFailedLoad ]_vars

\* The initial load has failed and an Add answered since has put its task
\* in the list.
C20_Witness ==
  /\ loaded = "err"
  /\ last.op = "addTodo"
  /\ last.outcome = "ok"
  /\ todoList = <<last.li>>

\* C21 -- Edit with an empty or whitespace-only new title issues no remote
\* call and changes neither the title nor the `completed` value of the task.
C21_BlankEditRejected ==
  [][ \A n \in DOMAIN lis :
        ( /\ UserDid("saveEdit")
          /\ last'.li = n
          /\ IsBlank(lis[n].editInput) )
        => /\ UNCHANGED <<calls, store, todoList, taskCount, loading>>
           /\ lis'[n].taskText = lis[n].taskText
           /\ lis'[n].completed = lis[n].completed
           /\ lis'[n].todoId = lis[n].todoId ]_vars

\* The save button has just been used on a whitespace-only edit text.
C21_Witness ==
  /\ last.op = "saveEdit"
  /\ last.outcome = "rejected"
  /\ lis[last.li].editInput = <<" ">>
  /\ calls = <<>>

\* The step puts exactly one new call in flight: `method` addressed to `id`.
IssuesOne(method, id) ==
  /\ Len(calls') = Len(calls) + 1
  /\ SubSeq(calls', 1, Len(calls)) = calls
  /\ calls'[Len(calls')].method = method
  /\ calls'[Len(calls')].id = id
  /\ calls'[Len(calls')].phase = "sent"

C23_FieldConsistency ==
  ~InFlight
    => \A n \in Range(todoList), k \in DOMAIN store :
         store[k].id = lis[n].todoId
           => /\ store[k].completed = lis[n].completed
              /\ store[k].title = lis[n].taskText

\* C24 -- ClearAll removes only what it deleted: when the last delete of a
\* confirmed ClearAll succeeds, the list loses exactly the elements it held
\* when ClearAll was issued; an element appended meanwhile by an Add stays.
C24_ClearAllRemovesOnlyDeleted ==
  [][ \A b \in DOMAIN bulks :
        ( /\ bulks[b].kind = "clearAll"
          /\ bulks'[b].kind = "free"
          /\ Resolved("clearAll", "ok") )
        => todoList' =
             SelectSeq(todoList, LAMBDA n : n \notin Range(bulks[b].lis)) ]_vars

\* C25 -- Failed Add: neither the step that issues the create nor the step
\* that receives its failure changes the list (membership, order, titles,
\* completed values), so the list after the command is the list before it and
\* no element exists for the task that was not created.
C25_FailedAddLeavesList ==
  [][ ( \/ UserDid("addTodo")
        \/ Resolved("addTodo", "err") )
        => /\ UNCHANGED <<todoList, lis, taskCount>>
           /\ Resolved("addTodo", "err") => store' = store ]_vars

\* A create has failed: the list still holds the loaded task, nothing else.
C25_Witness ==
  /\ last.op = "addTodo"
  /\ last.outcome = "err"
  /\ todoList # <<>>
  /\ \A n \in DOMAIN lis : lis[n].addSeq = 0

\* C26 -- Failed Edit: neither the step that issues the replace nor the step
\* that receives its failure changes the title or the `completed` value of
\* the task, so the title after the command is the title before it.
C26_FailedEditKeepsTitle ==
  [][ \A n \in DOMAIN lis :
        ( /\ last'.li = n
          /\ UserDid("saveEdit") \/ Resolved("saveEdit", "err") )
        => /\ lis'[n].taskText = lis[n].taskText
           /\ lis'[n].completed = lis[n].completed
           /\ lis'[n].todoId = lis[n].todoId
           /\ todoList' = todoList
           /\ Resolved("saveEdit", "err") => store' = store ]_vars

\* The replace of an edit has failed: the element keeps its title, the text
\* typed is still in its edit field.
C26_Witness ==
  /\ last.op = "saveEdit"
  /\ last.outcome = "err"
  /\ lis[last.li].taskText = <<"a">>
  /\ TodoText(lis[last.li].editInput) = <<"b">>

\* t is s without its leading and trailing blanks.
IsTrimOf(t, s) ==
  /\ t # <<>>
  /\ t[1] # " "
  /\ t[Len(t)] # " "
  /\ \E j, k \in DOMAIN s :
       /\ SubSeq(s, j, k) = t
       /\ \A m \in DOMAIN s : (m < j \/ m > k) => s[m] = " "

\* C27 -- Successful Edit: the replace issued for a non-blank new title
\* carries the trimmed title together with the task's `completed` value; when
\* it succeeds the task's title is that trimmed title, the task has left the
\* editing mode, and its `completed` value, id and place in the list are
\* unchanged.
C27_EditSuccess ==
  [][ \A n \in DOMAIN lis :
        /\ (UserDid("saveEdit") /\ last'.li = n /\ ~IsBlank(lis[n].editInput))
             => /\ Len(calls') = Len(calls) + 1
                /\ IsTrimOf(calls'[Len(calls')].body.title, lis[n].editInput)
                /\ calls'[Len(calls')].body.completed = lis[n].completed
                /\ calls'[Len(calls')].method = "PUT"
        /\ (Resolved("saveEdit", "ok") /\ last'.li = n)
             => /\ \E i \in DOMAIN calls :
                     /\ calls[i].handler = "edit"
                     /\ calls[i].li = n
                     /\ calls[i].phase = "ok"
                     /\ calls' = RemoveAt(calls, i)
                     /\ lis'[n].taskText = calls[i].body.title
                /\ ~lis'[n].editing
                /\ lis'[n].completed = lis[n].completed
                /\ lis'[n].todoId = lis[n].todoId
                /\ todoList' = todoList ]_vars

\* The edit of task "a" into " b " has succeeded: the element and the store
\* both hold the title "b".
C27_Witness ==
  /\ last.op = "saveEdit"
  /\ last.outcome = "ok"
  /\ lis[last.li].taskText = <<"b">>
  /\ ~lis[last.li].editing
  /\ \E k \in DOMAIN store :
       store[k].id = lis[last.li].todoId /\ store[k].title = <<"b">>

\* C28 -- Successful Delete: when the remote remove succeeds the list loses
\* the element of that task and nothing else; every other task keeps its id,
\* title, `completed` value and its place relative to the others; the id of
\* the deleted task is no longer listed (the listed ids being distinct).
C28_DeleteRemovesExactlyOne ==
  [][ \A n \in DOMAIN lis :
        (Resolved("delete", "ok") /\ last'.li = n)
          => /\ todoList' = SelectSeq(todoList, LAMBDA m : m # n)
             /\ \A m \in Range(todoList') :
                  /\ lis'[m].todoId = lis[m].todoId
                  /\ lis'[m].taskText = lis[m].taskText
                  /\ lis'[m].completed = lis[m].completed
             /\ (\A j, k \in DOMAIN todoList :
                    j # k => lis[todoList[j]].todoId # lis[todoList[k]].todoId)
                  => \A m \in Range(todoList') : lis'[m].todoId # lis[n].todoId
      ]_vars

\* C30 -- Successful load: when the list request of loadTodos succeeds, the
\* former elements of the list are discarded and the list then holds one new
\* element for each task of the answer, in the answer's order, with the id,
\* the title and the `completed` value returned.
C30_LoadReplacesList ==
  [][ Resolved("loadTodos", "ok")
        => \E i \in DOMAIN calls :
             /\ calls[i].handler = "load"
             /\ calls[i].phase = "ok"
             /\ calls' = RemoveAt(calls, i)
             /\ Len(todoList') = Len(calls[i].resp)
             /\ \A k \in DOMAIN todoList' :
                  /\ todoList'[k] \notin DOMAIN lis
                  /\ lis'[todoList'[k]].todoId = calls[i].resp[k].id
                  /\ lis'[todoList'[k]].taskText = calls[i].resp[k].title
                  /\ lis'[todoList'[k]].completed = calls[i].resp[k].completed
             /\ \A j, k \in DOMAIN todoList' :
                  j # k => todoList'[j] # todoList'[k] ]_vars

\* The load has succeeded after an Add had put its element in the list: that
\* element is no longer listed, the list holds the elements of the answer.
C30_Witness ==
  /\ last.op = "loadTodos"
  /\ last.outcome = "ok"
  /\ todoList # <<>>
  /\ \E n \in DOMAIN lis : lis[n].addSeq > 0 /\ n \notin Range(todoList)

\* C29 -- ClearCompleted: a confirmed ClearCompleted puts in flight one DELETE
\* for each listed task that is completed at that moment and none else; when
\* the last of them succeeds, the list loses those tasks, none of their ids is
\* listed any more, and every other listed task keeps its title, its
\* `completed` value and its place relative to the others.
C29_ClearCompleted ==
  [][ /\ \A b \in DOMAIN bulks :
           (UserDid("clearCompleted") /\ bulks[b].kind = "free" /\ bulks'[b].kind # "free")
             => LET targets == SelectSeq(todoList, LAMBDA n : lis[n].completed) IN
                /\ bulks'[b].lis = targets
                /\ Len(calls') = Len(calls) + Len(targets)
                /\ \A k \in DOMAIN targets :
                     /\ calls'[Len(calls) + k].method = "DELETE"
                     /\ calls'[Len(calls) + k].id = lis[targets[k]].todoId
      /\ \A b \in DOMAIN bulks :
           ( /\ bulks[b].kind = "clearCompleted"
             /\ bulks'[b].kind = "free"
             /\ Resolved("clearCompleted", "ok") )
             => /\ todoList' =
                     SelectSeq(todoList, LAMBDA n : n \notin Range(bulks[b].lis))
                /\ \A m \in Range(todoList') :
                     /\ lis'[m].taskText = lis[m].taskText
                     /\ lis'[m].completed = lis[m].completed
                     /\ \A n \in Range(bulks[b].lis) : lis'[m].todoId # lis[n].todoId
      ]_vars

\* element m stands before element n in the list
Before(list, m, n) ==
  \E j, k \in DOMAIN list : j < k /\ list[j] = m /\ list[k] = n

\* C31 -- Stable insertion order: in every step, any two tasks that are in the
\* list before and after it keep their relative order (a load replaces every
\* element, so it keeps no pair); toggle, edit, delete, ClearCompleted and
\* filter changes never reorder the remaining tasks, and a successfully added
\* task is placed after all tasks already in the list.
C31_StableInsertionOrder ==
  [][ /\ \A m, n \in Range(todoList) \cap Range(todoList') :
           Before(todoList, m, n) <=> Before(todoList', m, n)
      /\ Resolved("addTodo", "ok")
           => \E n \in DOMAIN lis' :
                /\ n \notin Range(todoList)
                /\ todoList' = todoList \o <<n>>
      /\ ( \/ UserDid("toggle") \/ Resolved("toggle", "ok") \/ Resolved("toggle", "err")
           \/ UserDid("enterEdit") \/ UserDid("typeEdit") \/ UserDid("cancelEdit")
           \/ UserDid("saveEdit") \/ Resolved("saveEdit", "ok") \/ Resolved("saveEdit", "err")
           \/ UserDid("filter") \/ UserDid("delete") \/ UserDid("clearCompleted") )
           => todoList' = todoList ]_vars

\* A delete has succeeded and left two or more tasks in the list, one of them
\* added in this session.
C31_Witness ==
  /\ last.op = "delete"
  /\ last.outcome = "ok"
  /\ Len(todoList) >= 2
  /\ \E n \in Range(todoList) : lis[n].addSeq > 0

\* the local state of a task: its title, its `completed` value and its
\* completion time
Fields(li) == <<li.taskText, li.completed, li.completedTime>>

\* C32 -- Independence of different identifiers: a toggle, edit or delete
\* click on a task and the arrival of its response change nothing of a task
\* with a different id (title, `completed`, completion time, place in the
\* list), and the response leaves its own task in the state the command run on
\* its own leaves it in (toggle: the new value when it succeeds, the value
\* before the click when it fails; edit: the new title when it succeeds, no
\* change when it fails; delete: gone when it succeeds, no change when it
\* fails).  So the final state of two tasks with different ids is the same for
\* every order of the responses, and is that of the commands run one at a time.
C32_IndependentIds ==
  [][ LET n == last'.li IN
      /\ ( \/ UserDid("toggle") \/ UserDid("saveEdit") \/ UserDid("delete")
           \/ \E o \in {"ok", "err"} :
                \/ Resolved("toggle", o) \/ Resolved("saveEdit", o) \/ Resolved("delete", o) )
           => /\ DOMAIN lis' = DOMAIN lis
              /\ \A m \in DOMAIN lis :
                   lis[m].todoId # lis[n].todoId
                     => /\ Fields(lis'[m]) = Fields(lis[m])
                        /\ m \in Range(todoList') <=> m \in Range(todoList)
              /\ \A j, k \in Range(todoList) \cap Range(todoList') :
                   Before(todoList, j, k) <=> Before(todoList', j, k)
      /\ (Resolved("toggle", "ok") /\ ~lis[n].overlap)
           => /\ todoList' = todoList
              /\ Fields(lis'[n]) = <<lis[n].taskText, ~last'.was, ~last'.was>>
      /\ (Resolved("toggle", "err") /\ ~lis[n].overlap)
           => /\ todoList' = todoList
              /\ lis'[n].taskText = lis[n].taskText
              /\ lis'[n].completed = last'.was
      /\ Resolved("saveEdit", "ok")
           => /\ todoList' = todoList
              /\ \E i \in DOMAIN calls :
                   /\ calls[i].handler = "edit"
                   /\ calls[i].li = n
                   /\ calls' = RemoveAt(calls, i)
                   /\ Fields(lis'[n]) =
                        <<calls[i].body.title, lis[n].completed, lis[n].completedTime>>
      /\ Resolved("delete", "ok")
           => /\ todoList' = SelectSeq(todoList, LAMBDA m : m # n)
              /\ Fields(lis'[n]) = Fields(lis[n])
      /\ (Resolved("saveEdit", "err") \/ Resolved("delete", "err"))
           => /\ todoList' = todoList
              /\ Fields(lis'[n]) = Fields(lis[n]) ]_vars

\* The response of a toggle has arrived while a toggle, edit or delete of a
\* listed task with a different id is still in flight.
C32_Witness ==
  /\ last.op = "toggle"
  /\ last.outcome \in {"ok", "err"}
  /\ last.li \in Range(todoList)
  /\ \E i \in DOMAIN calls :
       /\ calls[i].handler \in {"toggle", "edit", "delete"}
       /\ calls[i].li \in Range(todoList)
       /\ calls[i].id # lis[last.li].todoId

\* C33 -- Idle implies not loading: in every reachable state with no remote
\* call in flight the loading indicator is inactive, and every step in which a
\* call finishes, with success or with failure, leaves the indicator off.
C33_IdleNotLoading ==
  /\ [](~InFlight => ~loading)
  /\ [][Len(calls') < Len(calls) => ~loading']_vars

\* The last call in flight has failed: nothing is in flight and the indicator
\* is off.
C33_Witness ==
  /\ ~InFlight
  /\ ~loading
  /\ last.outcome = "err"
  /\ last.op \in {"toggle", "delete", "saveEdit", "addTodo"}

\* C34 -- Toggle is ignored in editing mode: a toggle click on a task that is
\* in editing mode changes neither its `completed` value nor its completion
\* time (nor anything else of any element), issues no remote call, and leaves
\* the counter and every element's visibility as they are.
C34_ToggleIgnoredWhileEditing ==
  [][ \A n \in DOMAIN lis :
        (UserDid("toggle") /\ last'.li = n /\ lis[n].editing)
          => UNCHANGED <<lis, todoList, calls, loading, taskCount, store>> ]_vars

\* The user has clicked on a listed task that is in editing mode.
C34_Witness ==
  /\ last.op = "toggle"
  /\ last.outcome = "ignored"
  /\ last.li \in Range(todoList)
  /\ lis[last.li].editing

\* C35 -- Edit cancel is a no-op on the task: entering edit mode only puts the
\* task in editing mode, typing only changes the edit field, and cancelling
\* takes the task out of editing mode and sets the edit field to the task's
\* current title, whatever was typed; none of the three changes the title, the
\* `completed` value, the list or the counter, and none issues a remote call.
C35_EditCancelNoOp ==
  [][ \A n \in DOMAIN lis :
        /\ (UserDid("enterEdit") /\ last'.li = n)
             => lis' = [lis EXCEPT ![n].editing = TRUE]
        /\ (UserDid("typeEdit") /\ last'.li = n)
             => \E t \in Texts : lis' = [lis EXCEPT ![n].editInput = t]
        /\ (UserDid("cancelEdit") /\ last'.li = n)
             => lis' = [lis EXCEPT ![n].editing = FALSE,
                                   ![n].editInput = lis[n].taskText]
        /\ ( /\ UserDid("enterEdit") \/ UserDid("typeEdit") \/ UserDid("cancelEdit")
             /\ last'.li = n )
             => UNCHANGED <<todoList, calls, loading, taskCount, store>> ]_vars

\* The user has cancelled the edit of a listed task after typing another text
\* in its edit field: the field shows the title again.
C35_Witness ==
  /\ last.op = "cancelEdit"
  /\ last.was
  /\ last.li \in Range(todoList)
  /\ ~lis[last.li].editing
  /\ lis[last.li].editInput = lis[last.li].taskText

\* C36 -- Commands complete: if every call in flight eventually receives a
\* response, then whenever calls are in flight a state with no call in flight
\* follows, every toggle in flight on an element is eventually resolved
\* (confirmed or rolled back), every bulk clear comes to its end, and at every
\* moment each call in flight can be answered whatever else is in flight (no
\* command waits on another).
C36_CommandsComplete ==
  /\ InFlight ~> ~InFlight
  /\ \A n \in 1..(MaxInit + MaxCmds) :
       (TogglesInFlight(n) # {}) ~> (TogglesInFlight(n) = {})
  /\ \A b \in 1..MaxCalls :
       (bulks[b].kind # "free") ~> (bulks[b].kind = "free")
  /\ [](\A i \in DOMAIN calls : ENABLED Respond(i))

\* A toggle has come to its end by a rollback, after other commands, and
\* nothing is in flight any more.
C36_Witness ==
  /\ ~InFlight
  /\ last.op = "toggle"
  /\ last.outcome = "err"
  /\ lis[last.li].completed = last.was
  /\ nCmds >= 2

====
